---- MODULE Spec2Model ----
(***************************************************************************)
(* Model of the SSH forwarding tunnel of mbongo (src/tunnel.go):           *)
(* NewSSHTunnel, SSHTunnel.Close, SSHTunnel.acceptLoop and                 *)
(* SSHTunnel.handleConnection with its two directional copy goroutines.    *)
(* Every goroutine is a process with a program counter; every statement    *)
(* that touches state shared between goroutines is one step.               *)
(***************************************************************************)
EXTENDS Integers, FiniteSets, Sequences, TLC

\* Number of local connections a client opens against the listener.
MaxConns == 2

Conns == 1..MaxConns

\* The two goroutines of handleConnection: io.Copy(remoteConn, localConn)
\* is "l2r", io.Copy(localConn, remoteConn) is "r2l".
Dirs == {"l2r", "r2l"}

VARIABLES
    estPc,      \* position of NewSSHTunnel
    estErr,     \* error returned by NewSSHTunnel ("none" while there is none)
    sshClient,  \* t.sshClient: "none", "open", "closed"
    listener,   \* t.listener: "none", "open", "closed"
    done,       \* t.done: TRUE once close(t.done) has run
    wg,         \* counter of t.wg
    alPc,       \* position of the acceptLoop goroutine
    conn,       \* localConn held by acceptLoop between Accept and go, else 0
    hcPc,       \* position of handleConnection, per accepted connection
    localConn,  \* localConn of each connection: "none", "open", "closed"
    remoteConn, \* remoteConn of each connection: "none", "open", "closed"
    cpPc,       \* position of each copy goroutine, per connection and direction
    copyDone,   \* number of values buffered in handleConnection's done channel
    closePc,    \* position of Close
    closeErr,   \* value returned by Close: "pending", "nil", "err"
    againPc,    \* position of a further call of Close: "idle", "panicked"
    dials,      \* history: number of t.sshClient.Dial calls per connection
    lastErr,    \* history: state of t.done when the pending Accept error arose, else "none"
    how,        \* history: select case that ended each handleConnection
    clients,    \* number of clients that connect to the listener in this run
    cfg,        \* values of ~/.ssh/config for the alias; <<>> where not set
    freePorts,  \* ports the operating system can hand out to a listener
    keyPath,    \* path NewSSHTunnel has passed to os.ReadFile, else <<>>
    dialed,     \* host, port and user NewSSHTunnel has passed to ssh.Dial
    boundAddr,  \* address the listener is bound to
    localAddr,  \* t.localAddr, <<>> before the tunnel is built
    got,        \* value the last call of LocalAddr returned, <<>> before
    uri,        \* connection string given to the two string functions
    laddr,      \* local address given to BuildTunneledConnectionString
    hostPort,   \* result of ParseMongoHostPort(uri), <<>> before the call
    tunneled,   \* result of BuildTunneledConnectionString(uri, laddr), <<>> before
    retunneled, \* result of BuildTunneledConnectionString(tunneled, laddr), <<>> before
    twin,       \* result for uri spelled with the other scheme, <<>> before
    rd,         \* bytes each io.Copy has read from its source, per connection and direction
    buf,        \* bytes each io.Copy has read and not yet written
    wr          \* bytes written to the destination of each direction of each connection

estVars   == <<estPc, estErr>>
tunVars   == <<sshClient, listener, done>>
loopVars  == <<alPc, conn, lastErr>>
relayVars == <<hcPc, localConn, remoteConn, cpPc, copyDone, dials, how>>
closeVars == <<closePc, closeErr>>
addrVars  == <<cfg, keyPath, dialed, boundAddr, localAddr, got>>
strVars   == <<uri, laddr, hostPort, tunneled, retunneled, twin>>
dataVars  == <<rd, buf, wr>>
vars == <<estPc, estErr, sshClient, listener, done, wg, alPc, conn, hcPc,
          localConn, remoteConn, cpPc, copyDone, closePc, closeErr, againPc, dials,
          lastErr, how, clients, freePorts, cfg, keyPath, dialed, boundAddr, localAddr,
          got, uri, laddr, hostPort, tunneled, retunneled, twin, rd, buf, wr>>

\* The state before NewSSHTunnel is called, with n clients about to connect.
Start(n) ==
    /\ clients = n
    /\ estPc = "openConfig"
    /\ estErr = "none"
    /\ sshClient = "none"
    /\ listener = "none"
    /\ done = FALSE
    /\ wg = 0
    /\ alPc = "none"
    /\ conn = 0
    /\ hcPc = [i \in Conns |-> "none"]
    /\ localConn = [i \in Conns |-> "none"]
    /\ remoteConn = [i \in Conns |-> "none"]
    /\ cpPc = [i \in Conns |-> [d \in Dirs |-> "none"]]
    /\ copyDone = [i \in Conns |-> 0]
    /\ closePc = "idle"
    /\ closeErr = "pending"
    /\ dials = [i \in Conns |-> 0]
    /\ lastErr = "none"
    /\ how = [i \in Conns |-> "none"]

\* One entry of ~/.ssh/config with every field set, and no call made yet.
DefaultCfg == [HostName     |-> <<"h">>,
               User         |-> <<"u">>,
               Port         |-> <<"2", "2", "2", "2">>,
               IdentityFile |-> <<"/", "k">>]

\* The first and the last port the operating system hands out for a listener
\* that asks for port 0.
EphemeralPorts == {49152, 65535}

\* A host on which one port is left for a listener.
OnePort == {CHOOSE p \in EphemeralPorts : TRUE}

\* Nothing resolved, bound or returned yet.
NoAddr ==
    /\ keyPath = <<>>
    /\ dialed = [host |-> <<>>, port |-> 0, user |-> <<>>]
    /\ boundAddr = [host |-> <<>>, port |-> 0]
    /\ localAddr = <<>>
    /\ got = <<>>

\* No string function called.
NoStr ==
    /\ uri = <<>>
    /\ laddr = <<>>
    /\ hostPort = <<>>
    /\ tunneled = <<>>
    /\ retunneled = <<>>
    /\ twin = <<>>

\* No byte read or written by any io.Copy.
NoData ==
    /\ rd = [i \in Conns |-> [d \in Dirs |-> <<>>]]
    /\ buf = [i \in Conns |-> [d \in Dirs |-> <<>>]]
    /\ wr = [i \in Conns |-> [d \in Dirs |-> <<>>]]

Init ==
    /\ Start(MaxConns)
    /\ cfg = DefaultCfg
    /\ freePorts = OnePort
    /\ againPc = "idle"
    /\ NoAddr
    /\ NoStr
    /\ NoData

(***************************************************************************)
(* Strings are sequences of one-character strings.                         *)
(***************************************************************************)

\* strings.HasPrefix
HasPrefix(s, p) == Len(s) >= Len(p) /\ SubSeq(s, 1, Len(p)) = p

\* The value of a slice expression whose bounds are out of range: the run-time
\* panic that ends the call.
Panic == <<"panic">>

\* s[n:]
From(s, n) == IF n \in 0..Len(s) THEN SubSeq(s, n + 1, Len(s)) ELSE Panic

\* s[:n]
Upto(s, n) == IF n \in 0..Len(s) THEN SubSeq(s, 1, n) ELSE Panic

Digits == <<"0", "1", "2", "3", "4", "5", "6", "7", "8", "9">>

IsDigit(ch) == \E k \in 1..10 : Digits[k] = ch

DigitVal(ch) == (CHOOSE k \in 1..10 : Digits[k] = ch) - 1

RECURSIVE AtoiAcc(_, _)
\* The digit loop of strconv.Atoi: acc is the value of the digits read so far.
AtoiAcc(s, acc) ==
    IF s = <<>> THEN acc
    ELSE AtoiAcc(Tail(s), acc * 10 + DigitVal(Head(s)))

\* strconv.Atoi: an optional sign and at least one decimal digit, else an
\* error.
Atoi(s) ==
    LET signed == s # <<>> /\ Head(s) \in {"+", "-"}
        body   == IF signed THEN Tail(s) ELSE s
        ok     == body # <<>> /\ \A k \in 1..Len(body) : IsDigit(body[k])
        val    == IF ok THEN AtoiAcc(body, 0) ELSE 0
    IN  [ok |-> ok, val |-> IF signed /\ Head(s) = "-" THEN 0 - val ELSE val]

RECURSIVE Itoa(_)
\* The decimal digits of a natural number, as %d and Addr.String print it.
Itoa(n) ==
    IF n < 10 THEN <<Digits[n + 1]>>
    ELSE Itoa(n \div 10) \o <<Digits[(n % 10) + 1]>>

RECURSIVE Squeeze(_)
\* filepath.Clean on a path without "." and ".." elements: runs of "/"
\* become one "/".
Squeeze(s) ==
    IF Len(s) < 2 THEN s
    ELSE IF s[1] = "/" /\ s[2] = "/" THEN Squeeze(Tail(s))
    ELSE <<Head(s)>> \o Squeeze(Tail(s))

\* filepath.Clean: also no "/" at the end, except for the root.
Clean(s) ==
    LET q == Squeeze(s)
    IN  IF Len(q) > 1 /\ q[Len(q)] = "/" THEN SubSeq(q, 1, Len(q) - 1) ELSE q

\* filepath.Join of two elements: empty elements are left out, the others
\* are joined by "/" and cleaned.
Join(a, b) ==
    IF a = <<>> THEN (IF b = <<>> THEN <<>> ELSE Clean(b))
    ELSE IF b = <<>> THEN Clean(a)
    ELSE Clean(a \o <<"/">> \o b)

\* strings.TrimPrefix
TrimPrefix(s, p) == IF HasPrefix(s, p) THEN From(s, Len(p)) ELSE s

\* strings.Index for a one-character separator: the index of its first
\* occurrence, counted from 0, or -1.
Index(s, ch) ==
    IF \E k \in 1..Len(s) : s[k] = ch
       THEN (CHOOSE k \in 1..Len(s) :
                s[k] = ch /\ \A j \in 1..(k - 1) : s[j] # ch) - 1
       ELSE 0 - 1

\* strings.Contains
Contains(s, sub) ==
    \E k \in 0..(Len(s) - Len(sub)) : SubSeq(s, k + 1, k + Len(sub)) = sub

UpperCase == <<"A", "B", "C", "D", "E", "F", "G", "H", "I", "J", "K", "L", "M",
               "N", "O", "P", "Q", "R", "S", "T", "U", "V", "W", "X", "Y", "Z">>
LowerCase == <<"a", "b", "c", "d", "e", "f", "g", "h", "i", "j", "k", "l", "m",
               "n", "o", "p", "q", "r", "s", "t", "u", "v", "w", "x", "y", "z">>

\* strings.ToLower on ASCII text
ToLower(s) ==
    [k \in 1..Len(s) |->
        IF \E a \in 1..26 : UpperCase[a] = s[k]
           THEN LowerCase[CHOOSE a \in 1..26 : UpperCase[a] = s[k]]
           ELSE s[k]]

(***************************************************************************)
(* The environment of NewSSHTunnel                                         *)
(***************************************************************************)

\* The sshAlias argument.
Alias == <<"a">>

\* os.Getenv("HOME") and os.Getenv("USER").
EnvHome == <<"/", "r">>
EnvUser == <<"m", "e">>

\* The port of ssh when the configuration names none.
DefaultPort == 22

\* The address NewSSHTunnel asks net.Listen for: "127.0.0.1:0".
ListenHost == <<"1", "2", "7", ".", "0", ".", "0", ".", "1">>
ListenPort == 0

\* The entries of ~/.ssh/config the alias can have.
Configs ==
    [HostName     : {<<>>, <<"h">>},
     User         : {<<>>, <<"u">>},
     Port         : {<<>>, <<"2", "2", "2", "2">>, <<"x">>},
     IdentityFile : {<<>>, <<"/", "k">>, <<"~", "/", "k">>, <<"~", "k">>}]

\* hostname: HostName of the alias, or the alias.
Hostname(c) == IF c.HostName = <<>> THEN Alias ELSE c.HostName

\* user: User of the alias, or $USER.
UserName(c) == IF c.User = <<>> THEN EnvUser ELSE c.User

\* port: Port of the alias, "22" when there is none, 22 when Atoi fails.
PortNumber(c) ==
    LET portStr == IF c.Port = <<>> THEN Itoa(DefaultPort) ELSE c.Port
    IN  IF Atoi(portStr).ok THEN Atoi(portStr).val ELSE DefaultPort

\* An expansion of every path that starts with "~".
IdentityFileAnyTilde(c) ==
    LET f == IF c.IdentityFile = <<>>
                THEN Join(Join(EnvHome, <<".", "s", "s", "h">>),
                          <<"i", "d", "_", "r", "s", "a">>)
                ELSE c.IdentityFile
    IN  IF HasPrefix(f, <<"~">>) THEN Join(EnvHome, From(f, 1)) ELSE f

\* identityFile: IdentityFile of the alias, or $HOME/.ssh/id_rsa; a leading
\* "~/" is expanded to $HOME.
IdentityFile(c) ==
    LET f == IF c.IdentityFile = <<>>
                THEN Join(Join(EnvHome, <<".", "s", "s", "h">>),
                          <<"i", "d", "_", "r", "s", "a">>)
                ELSE c.IdentityFile
    IN  IF HasPrefix(f, <<"~", "/">>) THEN Join(EnvHome, From(f, 2)) ELSE f

\* net.Addr.String of a TCP address: host ":" port.
AddrString(a) == a.host \o <<":">> \o Itoa(a.port)

(***************************************************************************)
(* NewSSHTunnel                                                            *)
(***************************************************************************)

\* A setup call whose error is recorded and then ignored.
SetupStepGoesOn(here, next, err) ==
    /\ estPc = here
    /\ \E ok \in BOOLEAN :
          /\ estPc' = next
          /\ estErr' = IF ok THEN estErr ELSE err

\* One fallible setup call of NewSSHTunnel: on success go on to `next`, on
\* failure return (nil, err).
SetupStep(here, next, err) ==
    /\ estPc = here
    /\ \E ok \in BOOLEAN :
          IF ok THEN /\ estPc' = next
                     /\ estErr' = estErr
                ELSE /\ estPc' = "failed"
                     /\ estErr' = err

OpenConfig ==
    /\ SetupStep("openConfig", "decode", "openConfig")
    /\ UNCHANGED <<clients, againPc, freePorts, dataVars, strVars, addrVars, tunVars, wg, loopVars, relayVars, closeVars>>

DecodeConfig ==
    /\ SetupStep("decode", "readKey", "decode")
    /\ UNCHANGED <<clients, againPc, freePorts, dataVars, strVars, addrVars, tunVars, wg, loopVars, relayVars, closeVars>>

\* The connection details are taken from the configuration, then
\* os.ReadFile(identityFile).
ReadKey ==
    /\ SetupStep("readKey", "parseKey", "readKey")
    /\ keyPath' = IdentityFile(cfg)
    /\ UNCHANGED <<clients, againPc, freePorts, dataVars, strVars, cfg, dialed, boundAddr, localAddr, got, tunVars, wg,
                   loopVars, relayVars, closeVars>>

ParseKey ==
    /\ SetupStep("parseKey", "sshDial", "parseKey")
    /\ UNCHANGED <<clients, againPc, freePorts, dataVars, strVars, addrVars, tunVars, wg, loopVars, relayVars, closeVars>>

\* ssh.Dial("tcp", hostname:port, sshConfig)
SSHDial ==
    /\ SetupStep("sshDial", "listen", "sshDial")
    /\ dialed' = [host |-> Hostname(cfg), port |-> PortNumber(cfg),
                  user |-> UserName(cfg)]
    /\ sshClient' = IF estPc' = "listen" THEN "open" ELSE sshClient
    /\ UNCHANGED <<clients, againPc, freePorts, dataVars, strVars, cfg, keyPath, boundAddr, localAddr, got, listener,
                   done, wg, loopVars, relayVars, closeVars>>

\* The address a listener gets: the host it asked for, and the port it asked
\* for or, for port 0, the port p the operating system picks.
Bind(host, port, p) == [host |-> host, port |-> IF port = 0 THEN p ELSE port]

\* A failed net.Listen that returns without sshClient.Close().
ListenLeaksClient ==
    /\ SetupStep("listen", "start", "listen")
    /\ listener' = IF estPc' = "start" THEN "open" ELSE listener
    /\ \E p \in freePorts :
          boundAddr' = IF estPc' = "start" THEN Bind(ListenHost, ListenPort, p)
                                          ELSE boundAddr
    /\ sshClient' = sshClient
    /\ UNCHANGED <<clients, againPc, freePorts, dataVars, strVars, cfg, keyPath, dialed, localAddr, got, done, wg,
                   loopVars, relayVars, closeVars>>

\* net.Listen("tcp", "127.0.0.1:0")
Listen ==
    /\ SetupStep("listen", "start", "listen")
    /\ IF estPc' = "start"
          THEN /\ listener' = "open"
               /\ \E p \in freePorts :
                     boundAddr' = Bind(ListenHost, ListenPort, p)
               /\ sshClient' = sshClient
          ELSE /\ listener' = listener
               /\ boundAddr' = boundAddr
               /\ sshClient' = "closed"
    /\ UNCHANGED <<clients, againPc, freePorts, dataVars, strVars, cfg, keyPath, dialed, localAddr, got, done, wg,
                   loopVars, relayVars, closeVars>>

\* A tunnel whose acceptLoop is started without tunnel.wg.Add(1).
StartTunnelNoAdd ==
    /\ estPc = "start"
    /\ estPc' = "returned"
    /\ localAddr' = AddrString(boundAddr)
    /\ wg' = wg
    /\ alPc' = "accept"
    /\ UNCHANGED <<clients, againPc, freePorts, dataVars, strVars, cfg, keyPath, dialed, boundAddr, got, estErr,
                   tunVars, conn, lastErr, relayVars, closeVars>>

\* A tunnel whose localAddr is the address asked for, not the bound one.
StartTunnelAsksAddr ==
    /\ estPc = "start"
    /\ estPc' = "returned"
    /\ localAddr' = AddrString([host |-> ListenHost, port |-> ListenPort])
    /\ wg' = wg + 1
    /\ alPc' = "accept"
    /\ UNCHANGED <<clients, againPc, freePorts, dataVars, strVars, cfg, keyPath, dialed, boundAddr, got, estErr,
                   tunVars, conn, lastErr, relayVars, closeVars>>

\* tunnel := &SSHTunnel{..., localAddr: listener.Addr().String(), ...};
\* tunnel.wg.Add(1); go tunnel.acceptLoop(); return tunnel, nil
StartTunnel ==
    /\ estPc = "start"
    /\ estPc' = "returned"
    /\ localAddr' = AddrString(boundAddr)
    /\ wg' = wg + 1
    /\ alPc' = "accept"
    /\ UNCHANGED <<clients, againPc, freePorts, dataVars, strVars, cfg, keyPath, dialed, boundAddr, got, estErr,
                   tunVars, conn, lastErr, relayVars, closeVars>>

NewSSHTunnel ==
    \/ OpenConfig
    \/ DecodeConfig
    \/ ReadKey
    \/ ParseKey
    \/ SSHDial
    \/ Listen
    \/ StartTunnel

(***************************************************************************)
(* SSHTunnel.acceptLoop                                                    *)
(***************************************************************************)

\* The connection the next successful Accept returns.
NextConn == CHOOSE i \in Conns : /\ localConn[i] = "none"
                                 /\ \A j \in Conns : j < i => localConn[j] # "none"

\* Accept reached only when every earlier handleConnection has returned, as
\* when handleConnection is called without go.
AcceptOkAfterRelays ==
    /\ alPc = "accept"
    /\ listener = "open"
    /\ \A j \in Conns : hcPc[j] \in {"none", "exited"}
    /\ \E i \in Conns : i <= clients /\ localConn[i] = "none"
    /\ conn' = NextConn
    /\ localConn' = [localConn EXCEPT ![NextConn] = "open"]
    /\ alPc' = "add"
    /\ UNCHANGED <<clients, againPc, freePorts, dataVars, strVars, addrVars, estVars, tunVars, wg, lastErr, hcPc, remoteConn, cpPc,
                   copyDone, dials, how, closeVars>>

\* Accept returning a connection from a listener in any state.
AcceptOkAnyListener ==
    /\ alPc = "accept"
    /\ \E i \in Conns : i <= clients /\ localConn[i] = "none"
    /\ conn' = NextConn
    /\ localConn' = [localConn EXCEPT ![NextConn] = "open"]
    /\ alPc' = "add"
    /\ UNCHANGED <<clients, againPc, freePorts, dataVars, strVars, addrVars, estVars, tunVars, wg, lastErr, hcPc, remoteConn, cpPc,
                   copyDone, dials, how, closeVars>>

\* t.listener.Accept() returns a connection.
AcceptOk ==
    /\ alPc = "accept"
    /\ listener = "open"
    /\ \E i \in Conns : i <= clients /\ localConn[i] = "none"
    /\ conn' = NextConn
    /\ localConn' = [localConn EXCEPT ![NextConn] = "open"]
    /\ alPc' = "add"
    /\ UNCHANGED <<clients, againPc, freePorts, dataVars, strVars, addrVars, estVars, tunVars, wg, lastErr, hcPc, remoteConn, cpPc,
                   copyDone, dials, how, closeVars>>

\* An Accept error that is treated as fatal: the listener is closed.
AcceptTransientErrFatal ==
    /\ alPc = "accept"
    /\ listener = "open"
    /\ listener' = "closed"
    /\ alPc' = "select"
    /\ lastErr' = IF done THEN "set" ELSE "unset"
    /\ UNCHANGED <<clients, againPc, freePorts, dataVars, strVars, addrVars, estVars, sshClient, done, wg, conn, relayVars,
                   closeVars>>

\* t.listener.Accept() fails although the listener is open.
AcceptTransientErr ==
    /\ alPc = "accept"
    /\ listener = "open"
    /\ alPc' = "select"
    /\ lastErr' = IF done THEN "set" ELSE "unset"
    /\ UNCHANGED <<clients, againPc, freePorts, dataVars, strVars, addrVars, estVars, tunVars, wg, conn, relayVars, closeVars>>

\* t.listener.Accept() fails because the listener is closed.
AcceptClosedErr ==
    /\ alPc = "accept"
    /\ listener = "closed"
    /\ alPc' = "select"
    /\ lastErr' = IF done THEN "set" ELSE "unset"
    /\ UNCHANGED <<clients, againPc, freePorts, dataVars, strVars, addrVars, estVars, tunVars, wg, conn, relayVars, closeVars>>

\* The select returning on every Accept error.
AcceptSelectAlwaysReturn ==
    /\ alPc = "select"
    /\ alPc' = "exited"
    /\ wg' = wg - 1
    /\ lastErr' = "none"
    /\ UNCHANGED <<clients, againPc, freePorts, dataVars, strVars, addrVars, estVars, tunVars, conn, relayVars, closeVars>>

\* select { case <-t.done: return; default: continue }, with the deferred
\* t.wg.Done() on return.
AcceptSelect ==
    /\ alPc = "select"
    /\ IF done THEN /\ alPc' = "exited"
                    /\ wg' = wg - 1
               ELSE /\ alPc' = "accept"
                    /\ wg' = wg
    /\ lastErr' = "none"
    /\ UNCHANGED <<clients, againPc, freePorts, dataVars, strVars, addrVars, estVars, tunVars, conn, relayVars, closeVars>>

\* An acceptLoop that leaves t.wg.Add(1) to the goroutine it starts.
WgAddInsideRelay ==
    /\ alPc = "add"
    /\ wg' = wg
    /\ alPc' = "go"
    /\ UNCHANGED <<clients, againPc, freePorts, dataVars, strVars, addrVars, estVars, tunVars, conn, lastErr, relayVars, closeVars>>

\* t.wg.Add(1)
WgAdd ==
    /\ alPc = "add"
    /\ wg' = wg + 1
    /\ alPc' = "go"
    /\ UNCHANGED <<clients, againPc, freePorts, dataVars, strVars, addrVars, estVars, tunVars, conn, lastErr, relayVars, closeVars>>

\* go t.handleConnection(localConn)
GoHandle ==
    /\ alPc = "go"
    /\ hcPc' = [hcPc EXCEPT ![conn] = "dial"]
    /\ conn' = 0
    /\ alPc' = "accept"
    /\ UNCHANGED <<clients, againPc, freePorts, dataVars, strVars, addrVars, estVars, tunVars, wg, lastErr, localConn, remoteConn,
                   cpPc, copyDone, dials, how, closeVars>>

acceptLoop ==
    \/ AcceptOk
    \/ AcceptTransientErr
    \/ AcceptClosedErr
    \/ AcceptSelect
    \/ WgAdd
    \/ GoHandle

(***************************************************************************)
(* SSHTunnel.handleConnection                                              *)
(***************************************************************************)

\* Capacity of the done channel of handleConnection.
DoneCap == 2

\* History counter of Dial calls, saturating.
MaxDials == 2

Bump(n) == IF n < MaxDials THEN n + 1 ELSE n

\* t.sshClient.Dial succeeds; defer remoteConn.Close(); the done channel is
\* made and both copy goroutines are started.
DialOk(i) ==
    /\ hcPc[i] = "dial"
    /\ sshClient = "open"
    /\ dials' = [dials EXCEPT ![i] = Bump(@)]
    /\ remoteConn' = [remoteConn EXCEPT ![i] = "open"]
    /\ cpPc' = [cpPc EXCEPT ![i] = [d \in Dirs |-> "run"]]
    /\ hcPc' = [hcPc EXCEPT ![i] = "select"]
    /\ UNCHANGED <<clients, againPc, freePorts, dataVars, strVars, addrVars, estVars, tunVars, wg, loopVars, localConn, copyDone, how,
                   closeVars>>

\* A failed Dial that is tried again.
DialFailRetry(i) ==
    /\ hcPc[i] = "dial"
    /\ dials' = [dials EXCEPT ![i] = Bump(@)]
    /\ UNCHANGED <<clients, againPc, freePorts, dataVars, strVars, addrVars, estVars, tunVars, wg, loopVars, hcPc, localConn, remoteConn,
                   cpPc, copyDone, how, closeVars>>

\* A failed Dial that is treated as fatal for the tunnel: the listener is
\* closed before returning.
DialFailFatal(i) ==
    /\ hcPc[i] = "dial"
    /\ dials' = [dials EXCEPT ![i] = Bump(@)]
    /\ listener' = "closed"
    /\ hcPc' = [hcPc EXCEPT ![i] = "closeLocal"]
    /\ UNCHANGED <<clients, againPc, freePorts, dataVars, strVars, addrVars, estVars, sshClient, done, wg, loopVars, localConn,
                   remoteConn, cpPc, copyDone, how, closeVars>>

\* A Dial error returned before localConn.Close() is deferred.
DialFailLeavesLocal(i) ==
    /\ hcPc[i] = "dial"
    /\ dials' = [dials EXCEPT ![i] = Bump(@)]
    /\ hcPc' = [hcPc EXCEPT ![i] = "wgDone"]
    /\ UNCHANGED <<clients, againPc, freePorts, dataVars, strVars, addrVars, estVars, tunVars, wg, loopVars, localConn, remoteConn, cpPc,
                   copyDone, how, closeVars>>

\* t.sshClient.Dial fails: return, running the deferred calls.
DialFail(i) ==
    /\ hcPc[i] = "dial"
    /\ dials' = [dials EXCEPT ![i] = Bump(@)]
    /\ hcPc' = [hcPc EXCEPT ![i] = "closeLocal"]
    /\ UNCHANGED <<clients, againPc, freePorts, dataVars, strVars, addrVars, estVars, tunVars, wg, loopVars, localConn, remoteConn, cpPc,
                   copyDone, how, closeVars>>

\* select case <-done: one copy direction has reported its end.
SelectCopyDone(i) ==
    /\ hcPc[i] = "select"
    /\ copyDone[i] > 0
    /\ copyDone' = [copyDone EXCEPT ![i] = @ - 1]
    /\ how' = [how EXCEPT ![i] = "copy"]
    /\ hcPc' = [hcPc EXCEPT ![i] = "closeRemote"]
    /\ UNCHANGED <<clients, againPc, freePorts, dataVars, strVars, addrVars, estVars, tunVars, wg, loopVars, localConn, remoteConn, cpPc,
                   dials, closeVars>>

\* A select that does not wait: it falls through whether or not t.done is
\* closed.
SelectShutdownDefault(i) ==
    /\ hcPc[i] = "select"
    /\ how' = [how EXCEPT ![i] = "shutdown"]
    /\ hcPc' = [hcPc EXCEPT ![i] = "closeRemote"]
    /\ UNCHANGED <<clients, againPc, freePorts, dataVars, strVars, addrVars, estVars, tunVars, wg, loopVars, localConn, remoteConn, cpPc,
                   copyDone, dials, closeVars>>

\* select case <-t.done: the tunnel is closing.
SelectShutdown(i) ==
    /\ hcPc[i] = "select"
    /\ done
    /\ how' = [how EXCEPT ![i] = "shutdown"]
    /\ hcPc' = [hcPc EXCEPT ![i] = "closeRemote"]
    /\ UNCHANGED <<clients, againPc, freePorts, dataVars, strVars, addrVars, estVars, tunVars, wg, loopVars, localConn, remoteConn, cpPc,
                   copyDone, dials, closeVars>>

\* A return that closes the shared transport instead of the relay's channel.
CloseRemoteClosesClient(i) ==
    /\ hcPc[i] = "closeRemote"
    /\ sshClient' = "closed"
    /\ remoteConn' = [remoteConn EXCEPT ![i] = "closed"]
    /\ hcPc' = [hcPc EXCEPT ![i] = "closeLocal"]
    /\ UNCHANGED <<clients, againPc, freePorts, dataVars, strVars, addrVars, estVars, listener, done, wg, loopVars, localConn,
                   cpPc, copyDone, dials, how, closeVars>>

\* Return without the deferred remoteConn.Close().
CloseRemoteSkipped(i) ==
    /\ hcPc[i] = "closeRemote"
    /\ hcPc' = [hcPc EXCEPT ![i] = "closeLocal"]
    /\ UNCHANGED <<clients, againPc, freePorts, dataVars, strVars, addrVars, estVars, tunVars, wg, loopVars, localConn, remoteConn, cpPc,
                   copyDone, dials, how, closeVars>>

\* deferred remoteConn.Close()
CloseRemote(i) ==
    /\ hcPc[i] = "closeRemote"
    /\ remoteConn' = [remoteConn EXCEPT ![i] = "closed"]
    /\ hcPc' = [hcPc EXCEPT ![i] = "closeLocal"]
    /\ UNCHANGED <<clients, againPc, freePorts, dataVars, strVars, addrVars, estVars, tunVars, wg, loopVars, localConn, cpPc, copyDone,
                   dials, how, closeVars>>

\* Return without the deferred localConn.Close().
CloseLocalSkipped(i) ==
    /\ hcPc[i] = "closeLocal"
    /\ hcPc' = [hcPc EXCEPT ![i] = "wgDone"]
    /\ UNCHANGED <<clients, againPc, freePorts, dataVars, strVars, addrVars, estVars, tunVars, wg, loopVars, localConn, remoteConn, cpPc,
                   copyDone, dials, how, closeVars>>

\* deferred localConn.Close()
CloseLocal(i) ==
    /\ hcPc[i] = "closeLocal"
    /\ localConn' = [localConn EXCEPT ![i] = "closed"]
    /\ hcPc' = [hcPc EXCEPT ![i] = "wgDone"]
    /\ UNCHANGED <<clients, againPc, freePorts, dataVars, strVars, addrVars, estVars, tunVars, wg, loopVars, remoteConn, cpPc, copyDone,
                   dials, how, closeVars>>

\* A handleConnection whose defer t.wg.Done() comes after the return on a
\* Dial error.
WgDoneAfterDialOnly(i) ==
    /\ hcPc[i] = "wgDone"
    /\ wg' = IF remoteConn[i] = "none" THEN wg ELSE wg - 1
    /\ hcPc' = [hcPc EXCEPT ![i] = "exited"]
    /\ UNCHANGED <<clients, againPc, freePorts, dataVars, strVars, addrVars, estVars, tunVars, loopVars, localConn, remoteConn, cpPc,
                   copyDone, dials, how, closeVars>>

\* deferred t.wg.Done()
WgDone(i) ==
    /\ hcPc[i] = "wgDone"
    /\ wg' = wg - 1
    /\ hcPc' = [hcPc EXCEPT ![i] = "exited"]
    /\ UNCHANGED <<clients, againPc, freePorts, dataVars, strVars, addrVars, estVars, tunVars, loopVars, localConn, remoteConn, cpPc,
                   copyDone, dials, how, closeVars>>

handleConnection(i) ==
    \/ DialOk(i)
    \/ DialFail(i)
    \/ SelectCopyDone(i)
    \/ SelectShutdown(i)
    \/ CloseRemote(i)
    \/ CloseLocal(i)
    \/ WgDone(i)

(***************************************************************************)
(* The copy goroutines of handleConnection                                 *)
(***************************************************************************)

\* The connection io.Copy reads from in direction d.
ReadEnd(i, d) == IF d = "l2r" THEN localConn[i] ELSE remoteConn[i]

\* io.Copy returns on end-of-stream or on an I/O error of the peer, and the
\* goroutine sends on the done channel and ends.
CopyEnd(i, d) ==
    /\ cpPc[i][d] = "run"
    /\ ReadEnd(i, d) = "open"
    /\ copyDone[i] < DoneCap
    /\ copyDone' = [copyDone EXCEPT ![i] = @ + 1]
    /\ cpPc' = [cpPc EXCEPT ![i][d] = "exit"]
    /\ UNCHANGED <<clients, againPc, freePorts, dataVars, strVars, addrVars, estVars, tunVars, wg, loopVars, hcPc, localConn, remoteConn,
                   dials, how, closeVars>>

\* The same on a done channel made without a buffer: the send needs
\* handleConnection to be receiving in its select.
CopyUnblockedUnbuffered(i, d) ==
    /\ cpPc[i][d] = "run"
    /\ ReadEnd(i, d) = "closed"
    /\ hcPc[i] = "select"
    /\ copyDone[i] < DoneCap
    /\ copyDone' = [copyDone EXCEPT ![i] = @ + 1]
    /\ cpPc' = [cpPc EXCEPT ![i][d] = "exit"]
    /\ UNCHANGED <<clients, againPc, freePorts, dataVars, strVars, addrVars, estVars, tunVars, wg, loopVars, hcPc, localConn, remoteConn,
                   dials, how, closeVars>>

\* io.Copy returns because the connection it reads from has been closed, and
\* the goroutine sends on the done channel and ends.
CopyUnblocked(i, d) ==
    /\ cpPc[i][d] = "run"
    /\ ReadEnd(i, d) = "closed"
    /\ copyDone[i] < DoneCap
    /\ copyDone' = [copyDone EXCEPT ![i] = @ + 1]
    /\ cpPc' = [cpPc EXCEPT ![i][d] = "exit"]
    /\ UNCHANGED <<clients, againPc, freePorts, dataVars, strVars, addrVars, estVars, tunVars, wg, loopVars, hcPc, localConn, remoteConn,
                   dials, how, closeVars>>

copyTask(i, d) ==
    \/ CopyEnd(i, d)
    \/ CopyUnblocked(i, d)

\* Number of bytes the peers of the tunnel send altogether.
MaxBytes == 2

\* The k-th byte the peer of direction d of connection i sends: the client for
\* "l2r", the remote database for "r2l".
Byte(i, d, k) == <<i, d, k>>

\* Number of bytes read so far by every io.Copy together.
RECURSIVE TotalRead(_)
TotalRead(n) ==
    IF n = 0 THEN 0
    ELSE TotalRead(n - 1) + Len(rd[n]["l2r"]) + Len(rd[n]["r2l"])

\* The connection io.Copy writes to in direction d.
WriteEnd(i, d) == IF d = "l2r" THEN remoteConn[i] ELSE localConn[i]

\* io.Copy: src.Read(buf) returns the next byte the peer has sent.
CopyRead(i, d) ==
    /\ cpPc[i][d] = "run"
    /\ buf[i][d] = <<>>
    /\ ReadEnd(i, d) = "open"
    /\ TotalRead(MaxConns) < MaxBytes
    /\ rd' = [rd EXCEPT ![i][d] = Append(@, Byte(i, d, Len(@) + 1))]
    /\ buf' = [buf EXCEPT ![i][d] = <<Byte(i, d, Len(rd[i][d]) + 1)>>]
    /\ UNCHANGED <<clients, againPc, freePorts, wr, strVars, addrVars, estVars, tunVars, wg, loopVars,
                   relayVars, closeVars>>

\* An io.Copy whose destination is the connection of the first relay,
\* whichever relay it belongs to.
CopyWriteShared(i, d) ==
    /\ cpPc[i][d] = "run"
    /\ buf[i][d] # <<>>
    /\ WriteEnd(1, d) = "open"
    /\ wr' = [wr EXCEPT ![1][d] = @ \o buf[i][d]]
    /\ buf' = [buf EXCEPT ![i][d] = <<>>]
    /\ UNCHANGED <<clients, againPc, freePorts, rd, strVars, addrVars, estVars, tunVars, wg, loopVars,
                   relayVars, closeVars>>

\* io.Copy: dst.Write(buf[0:nr]) writes what was read to the other side of
\* the same relay.
CopyWrite(i, d) ==
    /\ cpPc[i][d] = "run"
    /\ buf[i][d] # <<>>
    /\ WriteEnd(i, d) = "open"
    /\ wr' = [wr EXCEPT ![i][d] = @ \o buf[i][d]]
    /\ buf' = [buf EXCEPT ![i][d] = <<>>]
    /\ UNCHANGED <<clients, againPc, freePorts, rd, strVars, addrVars, estVars, tunVars, wg, loopVars,
                   relayVars, closeVars>>

(***************************************************************************)
(* SSHTunnel.Close                                                         *)
(***************************************************************************)

\* Close without close(t.done).
CloseDoneNoSignal ==
    /\ estPc = "returned"
    /\ closePc = "idle"
    /\ done' = done
    /\ closePc' = "listener"
    /\ UNCHANGED <<clients, againPc, freePorts, dataVars, strVars, addrVars, estVars, sshClient, listener, wg, loopVars, relayVars,
                   closeErr>>

\* close(t.done)
CloseDone ==
    /\ estPc = "returned"
    /\ closePc = "idle"
    /\ done' = TRUE
    /\ closePc' = "listener"
    /\ UNCHANGED <<clients, againPc, freePorts, dataVars, strVars, addrVars, estVars, sshClient, listener, wg, loopVars, relayVars,
                   closeErr>>

\* Close without t.listener.Close().
CloseListenerSkipped ==
    /\ closePc = "listener"
    /\ closePc' = "wait"
    /\ UNCHANGED <<clients, againPc, freePorts, dataVars, strVars, addrVars, estVars, tunVars, wg, loopVars, relayVars, closeErr>>

\* t.listener.Close()
CloseListener ==
    /\ closePc = "listener"
    /\ listener' = "closed"
    /\ closePc' = "wait"
    /\ UNCHANGED <<clients, againPc, freePorts, dataVars, strVars, addrVars, estVars, sshClient, done, wg, loopVars, relayVars, closeErr>>

\* Close without waiting for the wait group.
WgWaitNoBlock ==
    /\ closePc = "wait"
    /\ closePc' = "sshClient"
    /\ UNCHANGED <<clients, againPc, freePorts, dataVars, strVars, addrVars, estVars, tunVars, wg, loopVars, relayVars, closeErr>>

\* t.wg.Wait()
WgWait ==
    /\ closePc = "wait"
    /\ wg = 0
    /\ closePc' = "sshClient"
    /\ UNCHANGED <<clients, againPc, freePorts, dataVars, strVars, addrVars, estVars, tunVars, wg, loopVars, relayVars, closeErr>>

\* A Close that also reports a Dial error of a relay.
CloseSSHClientReportsDial ==
    /\ closePc = "sshClient"
    /\ sshClient' = "closed"
    /\ \E e \in {"nil", "err"} :
          closeErr' = IF \E i \in Conns : hcPc[i] = "exited" /\ remoteConn[i] = "none"
                      THEN "err" ELSE e
    /\ closePc' = "returned"
    /\ UNCHANGED <<clients, againPc, freePorts, dataVars, strVars, addrVars, estVars, listener, done, wg, loopVars, relayVars>>

\* return t.sshClient.Close()
CloseSSHClient ==
    /\ closePc = "sshClient"
    /\ sshClient' = "closed"
    /\ \E e \in {"nil", "err"} : closeErr' = e
    /\ closePc' = "returned"
    /\ UNCHANGED <<clients, againPc, freePorts, dataVars, strVars, addrVars, estVars, listener, done, wg, loopVars, relayVars>>

\* A further call of Close that goes through when t.done is closed already
\* and closes the listener and the SSH client again.
CloseAgainGoesThrough ==
    /\ estPc = "returned"
    /\ againPc = "idle"
    /\ done
    /\ againPc' = "returned"
    /\ listener' = "closed"
    /\ sshClient' = "closed"
    /\ UNCHANGED <<clients, freePorts, dataVars, strVars, addrVars, estVars, done, wg, loopVars, relayVars, closeVars>>

\* A further call of Close on the same tunnel, by the same or another
\* goroutine: of the calls that execute close(t.done), the one that finds the
\* channel open is the call CloseDone describes; this one finds it closed,
\* and close of a closed channel panics.
CloseAgain ==
    /\ estPc = "returned"
    /\ againPc = "idle"
    /\ done
    /\ againPc' = "panicked"
    /\ UNCHANGED <<clients, freePorts, dataVars, strVars, addrVars, estVars, tunVars, wg, loopVars, relayVars, closeVars>>

Close ==
    \/ CloseDone
    \/ CloseListener
    \/ WgWait
    \/ CloseSSHClient

Next ==
    \/ NewSSHTunnel
    \/ acceptLoop
    \/ Close
    \/ \E i \in Conns : handleConnection(i)
    \/ \E i \in Conns : \E d \in Dirs : copyTask(i, d)

(***************************************************************************)
(* ParseMongoHostPort and BuildTunneledConnectionString                    *)
(***************************************************************************)

\* "mongodb://"
Mongodb == <<"m", "o", "n", "g", "o", "d", "b", ":", "/", "/">>

\* "mongodb+srv://"
MongodbSrv == <<"m", "o", "n", "g", "o", "d", "b", "+", "s", "r", "v",
                ":", "/", "/">>

\* ":27017"
DefaultMongoPort == <<":", "2", "7", "0", "1", "7">>

\* "directconnection=", the text the result is searched for in lower case
DirectKey == <<"d", "i", "r", "e", "c", "t", "c", "o", "n", "n", "e", "c", "t",
               "i", "o", "n", "=">>

\* "directConnection=true", the option that is appended
DirectOption == <<"d", "i", "r", "e", "c", "t", "C", "o", "n", "n", "e", "c", "t",
                  "i", "o", "n", "=", "t", "r", "u", "e">>

\* ParseMongoHostPort that removes one scheme prefix only.
ParseMongoHostPortOneScheme(connStr) ==
    LET s1 == IF HasPrefix(connStr, Mongodb) THEN TrimPrefix(connStr, Mongodb)
              ELSE TrimPrefix(connStr, MongodbSrv)
        s2 == IF Index(s1, "@") # -1 THEN From(s1, Index(s1, "@") + 1) ELSE s1
        s3 == IF Index(s2, "/") # -1 THEN SubSeq(s2, 1, Index(s2, "/")) ELSE s2
        s4 == IF Index(s3, "?") # -1 THEN SubSeq(s3, 1, Index(s3, "?")) ELSE s3
    IN  IF ~Contains(s4, <<":">>) THEN s4 \o DefaultMongoPort ELSE s4

\* ParseMongoHostPort that skips one character more than the "@".
ParseMongoHostPortSkipsTwo(connStr) ==
    LET s0 == TrimPrefix(connStr, Mongodb)
        s1 == TrimPrefix(s0, MongodbSrv)
        s2 == IF Index(s1, "@") # -1 THEN From(s1, Index(s1, "@") + 2) ELSE s1
        s3 == IF Index(s2, "/") # -1 THEN Upto(s2, Index(s2, "/")) ELSE s2
        s4 == IF Index(s3, "?") # -1 THEN Upto(s3, Index(s3, "?")) ELSE s3
    IN  IF Panic \in {s2, s3, s4} THEN Panic
        ELSE IF ~Contains(s4, <<":">>) THEN s4 \o DefaultMongoPort ELSE s4

\* ParseMongoHostPort without the cut at "?".
ParseMongoHostPortKeepsQuery(connStr) ==
    LET s0 == TrimPrefix(connStr, Mongodb)
        s1 == TrimPrefix(s0, MongodbSrv)
        s2 == IF Index(s1, "@") # -1 THEN From(s1, Index(s1, "@") + 1) ELSE s1
        s3 == IF Index(s2, "/") # -1 THEN Upto(s2, Index(s2, "/")) ELSE s2
    IN  IF Panic \in {s2, s3} THEN Panic
        ELSE IF ~Contains(s3, <<":">>) THEN s3 \o DefaultMongoPort ELSE s3

ParseMongoHostPort(connStr) ==
    LET s0 == TrimPrefix(connStr, Mongodb)
        s1 == TrimPrefix(s0, MongodbSrv)
        s2 == IF Index(s1, "@") # -1 THEN From(s1, Index(s1, "@") + 1) ELSE s1
        s3 == IF Index(s2, "/") # -1 THEN Upto(s2, Index(s2, "/")) ELSE s2
        s4 == IF Index(s3, "?") # -1 THEN Upto(s3, Index(s3, "?")) ELSE s3
    IN  IF Panic \in {s2, s3, s4} THEN Panic
        ELSE IF ~Contains(s4, <<":">>) THEN s4 \o DefaultMongoPort ELSE s4

\* BuildTunneledConnectionString that appends the option without looking for
\* it in the result.
BuildTunneledConnectionStringAlwaysAppends(originalConnStr, la) ==
    LET recognized  == \/ HasPrefix(originalConnStr, Mongodb)
                       \/ HasPrefix(originalConnStr, MongodbSrv)
        prefix      == IF recognized THEN Mongodb ELSE <<>>
        s1          == IF HasPrefix(originalConnStr, Mongodb)
                          THEN TrimPrefix(originalConnStr, Mongodb)
                          ELSE TrimPrefix(originalConnStr, MongodbSrv)
        at          == Index(s1, "@")
        credentials == IF at # -1 THEN SubSeq(s1, 1, at + 1) ELSE <<>>
        s2          == IF at # -1 THEN From(s1, at + 1) ELSE s1
        suffix      == IF Index(s2, "/") # -1 THEN From(s2, Index(s2, "/"))
                       ELSE IF Index(s2, "?") # -1 THEN From(s2, Index(s2, "?"))
                       ELSE <<>>
        result      == prefix \o credentials \o la \o suffix
    IN  IF Contains(result, <<"?">>) THEN result \o <<"&">> \o DirectOption
        ELSE IF Contains(result, <<"/">>) THEN result \o <<"?">> \o DirectOption
        ELSE result \o <<"/", "?">> \o DirectOption

\* BuildTunneledConnectionString that keeps the scheme as it is spelled.
BuildTunneledConnectionStringKeepsScheme(originalConnStr, la) ==
    LET prefix      == IF HasPrefix(originalConnStr, Mongodb) THEN Mongodb
                       ELSE IF HasPrefix(originalConnStr, MongodbSrv)
                               THEN MongodbSrv
                       ELSE <<>>
        s1          == IF HasPrefix(originalConnStr, Mongodb)
                          THEN TrimPrefix(originalConnStr, Mongodb)
                          ELSE TrimPrefix(originalConnStr, MongodbSrv)
        at          == Index(s1, "@")
        credentials == IF at # -1 THEN SubSeq(s1, 1, at + 1) ELSE <<>>
        s2          == IF at # -1 THEN From(s1, at + 1) ELSE s1
        suffix      == IF Index(s2, "/") # -1 THEN From(s2, Index(s2, "/"))
                       ELSE IF Index(s2, "?") # -1 THEN From(s2, Index(s2, "?"))
                       ELSE <<>>
        result      == prefix \o credentials \o la \o suffix
    IN  IF Contains(result, <<"?">>)
           THEN IF ~Contains(ToLower(result), DirectKey)
                   THEN result \o <<"&">> \o DirectOption ELSE result
        ELSE IF Contains(result, <<"/">>)
           THEN IF ~Contains(ToLower(result), DirectKey)
                   THEN result \o <<"?">> \o DirectOption ELSE result
        ELSE result \o <<"/", "?">> \o DirectOption

\* BuildTunneledConnectionString that looks for the option as it is spelled,
\* without strings.ToLower.
BuildTunneledConnectionStringCaseSensitive(originalConnStr, la) ==
    LET recognized  == \/ HasPrefix(originalConnStr, Mongodb)
                       \/ HasPrefix(originalConnStr, MongodbSrv)
        prefix      == IF recognized THEN Mongodb ELSE <<>>
        s1          == IF HasPrefix(originalConnStr, Mongodb)
                          THEN TrimPrefix(originalConnStr, Mongodb)
                          ELSE TrimPrefix(originalConnStr, MongodbSrv)
        at          == Index(s1, "@")
        credentials == IF at # -1 THEN SubSeq(s1, 1, at + 1) ELSE <<>>
        s2          == IF at # -1 THEN From(s1, at + 1) ELSE s1
        suffix      == IF Index(s2, "/") # -1 THEN From(s2, Index(s2, "/"))
                       ELSE IF Index(s2, "?") # -1 THEN From(s2, Index(s2, "?"))
                       ELSE <<>>
        result      == prefix \o credentials \o la \o suffix
        spelled     == SubSeq(DirectOption, 1, Len(DirectKey))
    IN  IF Contains(result, <<"?">>)
           THEN IF ~Contains(result, spelled)
                   THEN result \o <<"&">> \o DirectOption ELSE result
        ELSE IF Contains(result, <<"/">>)
           THEN IF ~Contains(result, spelled)
                   THEN result \o <<"?">> \o DirectOption ELSE result
        ELSE result \o <<"/", "?">> \o DirectOption

BuildTunneledConnectionString(originalConnStr, la) ==
    LET recognized  == \/ HasPrefix(originalConnStr, Mongodb)
                       \/ HasPrefix(originalConnStr, MongodbSrv)
        prefix      == IF recognized THEN Mongodb ELSE <<>>
        s1          == IF HasPrefix(originalConnStr, Mongodb)
                          THEN TrimPrefix(originalConnStr, Mongodb)
                          ELSE TrimPrefix(originalConnStr, MongodbSrv)
        at          == Index(s1, "@")
        credentials == IF at # -1 THEN Upto(s1, at + 1) ELSE <<>>
        s2          == IF at # -1 THEN From(s1, at + 1) ELSE s1
        suffix      == IF Index(s2, "/") # -1 THEN From(s2, Index(s2, "/"))
                       ELSE IF Index(s2, "?") # -1 THEN From(s2, Index(s2, "?"))
                       ELSE <<>>
        result      == prefix \o credentials \o la \o suffix
    IN  IF Panic \in {credentials, s2, suffix} THEN Panic
        ELSE IF Contains(result, <<"?">>)
           THEN IF ~Contains(ToLower(result), DirectKey)
                   THEN result \o <<"&">> \o DirectOption ELSE result
        ELSE IF Contains(result, <<"/">>)
           THEN IF ~Contains(ToLower(result), DirectKey)
                   THEN result \o <<"?">> \o DirectOption ELSE result
        ELSE result \o <<"/", "?">> \o DirectOption

(***************************************************************************)
(* SSHTunnel.LocalAddr                                                     *)
(***************************************************************************)

\* An accessor that returns the host of the listener without the port.
LocalAddrDropsPort ==
    /\ estPc = "returned"
    /\ got' = boundAddr.host
    /\ UNCHANGED <<clients, againPc, freePorts, dataVars, strVars, cfg, keyPath, dialed, boundAddr, localAddr, estVars,
                   tunVars, wg, loopVars, relayVars, closeVars>>

\* return t.localAddr, called on a returned tunnel.
LocalAddr ==
    /\ estPc = "returned"
    /\ got' = localAddr
    /\ UNCHANGED <<clients, againPc, freePorts, dataVars, strVars, cfg, keyPath, dialed, boundAddr, localAddr, estVars,
                   tunVars, wg, loopVars, relayVars, closeVars>>

\* hostPort := ParseMongoHostPort(uri)
ParseCall ==
    /\ hostPort = <<>>
    /\ hostPort' = ParseMongoHostPort(uri)
    /\ UNCHANGED <<clients, againPc, freePorts, dataVars, uri, laddr, tunneled, retunneled, twin, addrVars, estVars, tunVars, wg,
                   loopVars, relayVars, closeVars>>

\* tunneled := BuildTunneledConnectionString(uri, laddr)
BuildCall ==
    /\ tunneled = <<>>
    /\ tunneled' = BuildTunneledConnectionString(uri, laddr)
    /\ UNCHANGED <<clients, againPc, freePorts, dataVars, uri, laddr, hostPort, retunneled, twin, addrVars, estVars, tunVars, wg,
                   loopVars, relayVars, closeVars>>

\* retunneled := BuildTunneledConnectionString(tunneled, laddr): the function
\* applied to its own result, with the same local address.
RebuildCall ==
    /\ tunneled # <<>>
    /\ retunneled = <<>>
    /\ retunneled' = BuildTunneledConnectionString(tunneled, laddr)
    /\ UNCHANGED <<clients, againPc, freePorts, dataVars, uri, laddr, hostPort, tunneled, twin, addrVars, estVars, tunVars, wg,
                   loopVars, relayVars, closeVars>>

\* The connection string with its scheme replaced by the other scheme.
OtherScheme(u) ==
    IF HasPrefix(u, Mongodb) THEN MongodbSrv \o TrimPrefix(u, Mongodb)
    ELSE IF HasPrefix(u, MongodbSrv) THEN Mongodb \o TrimPrefix(u, MongodbSrv)
    ELSE u

\* twin := BuildTunneledConnectionString(OtherScheme(uri), laddr)
TwinCall ==
    /\ twin = <<>>
    /\ twin' = BuildTunneledConnectionString(OtherScheme(uri), laddr)
    /\ UNCHANGED <<clients, againPc, freePorts, dataVars, uri, laddr, hostPort, tunneled, retunneled, addrVars, estVars, tunVars, wg,
                   loopVars, relayVars, closeVars>>

\* Longest sequence of pieces a connection string is put together from.
MaxPieces == 3

\* The separators of a connection string, the two schemes, the option in two
\* spellings and ordinary text.
Pieces == {Mongodb, MongodbSrv, <<"@">>, <<"/">>, <<"?">>, <<":">>, <<"h">>,
           <<"d", "i", "r", "e", "c", "t", "C", "o", "n", "n", "e", "c", "t", "i", "o", "n", "=">>,
           <<"D", "I", "R", "E", "C", "T", "C", "O", "N", "N", "E", "C", "T", "I", "O", "N", "=">>}

RECURSIVE Strings(_)
\* The concatenations of at most n pieces.
Strings(n) ==
    IF n = 0 THEN {<<>>}
    ELSE LET shorter == Strings(n - 1)
         IN  shorter \cup {a \o b : a \in shorter, b \in Pieces}

\* Connection strings in the shape of the documentation: scheme, credentials,
\* hosts, path and query.
Shaped ==
    LET schemes == {<<>>, Mongodb, MongodbSrv, Mongodb \o MongodbSrv}
        creds   == {<<>>, <<"u", ":", "p", "@">>, <<"u", "@", "p", "@">>}
        hosts   == {<<"h">>, <<"h", ":", "7">>, <<"a", ",", "b">>}
        paths   == {<<>>, <<"/">>, <<"/", "d">>}
        queries == {<<>>, <<"?", "x", "=", "1">>, <<"?", "x", "=", "/", "y">>, <<"?", "x", "=", "u", "@", "v">>,
                    <<"?", "d", "i", "r", "e", "c", "t", "C", "o", "n", "n", "e", "c", "t", "i", "o", "n", "=", "t", "r", "u", "e">>,
                    <<"?", "d", "i", "r", "e", "c", "t", "C", "o", "n", "n", "e", "c", "t", "i", "o", "n", "=", "f", "a", "l", "s", "e", "&", "x", "=", "/", "y">>,
                    <<"?", "D", "i", "r", "e", "c", "t", "C", "o", "n", "n", "e", "c", "t", "i", "o", "n", "=", "f", "a", "l", "s", "e", "&", "x", "=", "1">>,
                    <<"?", "d", "i", "r", "e", "c", "t", "C", "o", "n", "n", "e", "c", "t", "i", "o", "n", "=", "t", "r", "u", "e", "&", "d", "i", "r", "e", "c", "t", "c", "o", "n", "n", "e", "c", "t", "i", "o", "n", "=", "f", "a", "l", "s", "e">>}
    IN  {sc \o cr \o ho \o pa \o qu :
            sc \in schemes, cr \in creds, ho \in hosts, pa \in paths,
            qu \in queries}

\* The strings the two functions are applied to, the empty string among them.
URIs == Strings(MaxPieces) \cup Shaped

\* The local addresses of a tunnel: "127.0.0.1:5000" and "127.0.0.1:9".
LocalAddrs == {<<"1", "2", "7", ".", "0", ".", "0", ".", "1", ":", "5", "0", "0", "0">>, <<"1", "2", "7", ".", "0", ".", "0", ".", "1", ":", "9">>}

RewriteInit ==
    /\ Start(0)
    /\ cfg = DefaultCfg
    /\ freePorts = OnePort
    /\ againPc = "idle"
    /\ NoAddr
    /\ uri \in URIs
    /\ laddr \in LocalAddrs
    /\ hostPort = <<>>
    /\ tunneled = <<>>
    /\ retunneled = <<>>
    /\ twin = <<>>
    /\ NoData

RewriteNext ==
    \/ ParseCall
    \/ BuildCall
    \/ RebuildCall
    \/ TwinCall

RewriteSpec == RewriteInit /\ [][RewriteNext]_vars

\* A returned tunnel on which every client has connected and every Dial has
\* succeeded: acceptLoop waits in Accept, every handleConnection waits in its
\* select, every io.Copy runs, and Close has not been called.
DataInit ==
    /\ clients = MaxConns
    /\ estPc = "returned"
    /\ estErr = "none"
    /\ sshClient = "open"
    /\ listener = "open"
    /\ done = FALSE
    /\ wg = MaxConns + 1
    /\ alPc = "accept"
    /\ conn = 0
    /\ lastErr = "none"
    /\ hcPc = [i \in Conns |-> "select"]
    /\ localConn = [i \in Conns |-> "open"]
    /\ remoteConn = [i \in Conns |-> "open"]
    /\ cpPc = [i \in Conns |-> [d \in Dirs |-> "run"]]
    /\ copyDone = [i \in Conns |-> 0]
    /\ dials = [i \in Conns |-> 1]
    /\ how = [i \in Conns |-> "none"]
    /\ closePc = "idle"
    /\ closeErr = "pending"
    /\ cfg = DefaultCfg
    /\ keyPath = IdentityFile(cfg)
    /\ dialed = [host |-> Hostname(cfg), port |-> PortNumber(cfg),
                 user |-> UserName(cfg)]
    /\ freePorts = OnePort
    /\ againPc = "idle"
    /\ \E p \in freePorts : boundAddr = Bind(ListenHost, ListenPort, p)
    /\ localAddr = AddrString(boundAddr)
    /\ got = <<>>
    /\ NoStr
    /\ NoData

\* The steps of the relays while Close is not called: the copy goroutines,
\* and handleConnection from its select on.
DataNext ==
    \/ \E i \in Conns :
          \/ SelectCopyDone(i)
          \/ CloseRemote(i)
          \/ CloseLocal(i)
          \/ WgDone(i)
    \/ \E i \in Conns, d \in Dirs :
          \/ copyTask(i, d)
          \/ CopyRead(i, d)
          \/ CopyWrite(i, d)

DataSpec == DataInit /\ [][DataNext]_vars

\* Number of clients in the runs that vary the configuration and the port.
MaxEstConns == 1

EstInit ==
    /\ Start(MaxEstConns)
    /\ cfg \in Configs
    /\ freePorts = EphemeralPorts
    /\ againPc = "idle"
    /\ NoAddr
    /\ NoStr
    /\ NoData

EstNext ==
    \/ Next
    \/ LocalAddr

EstSpec == EstInit /\ [][EstNext]_vars

MaxFairConns == 1

FairInit ==
    /\ Start(MaxFairConns)
    /\ cfg = DefaultCfg
    /\ freePorts = OnePort
    /\ againPc = "idle"
    /\ NoAddr
    /\ NoStr
    /\ NoData

\* Every goroutine that can take a step is eventually scheduled; a blocked
\* Accept returns once the listener is closed, a blocked io.Copy returns once
\* the connection it reads from is closed, and every Dial returns.  Whether
\* Close is called, whether a client connects and whether a peer ends its
\* stream are left to the environment.
Fairness ==
    /\ WF_vars(CloseListener \/ WgWait \/ CloseSSHClient)
    /\ WF_vars(AcceptClosedErr \/ AcceptSelect \/ WgAdd \/ GoHandle)
    /\ \A i \in Conns : WF_vars(handleConnection(i))
    /\ \A i \in Conns : \A d \in Dirs : WF_vars(CopyUnblocked(i, d))

\* The tunnel with callers that call Close more than once.
AgainNext == Next \/ CloseAgain

AgainSpec == FairInit /\ [][AgainNext]_vars

FairSpec == FairInit /\ [][Next]_vars /\ Fairness

Spec == Init /\ [][Next]_vars

(***************************************************************************)
(* Properties                                                              *)
(***************************************************************************)

\* NewSSHTunnel has returned a tunnel to its caller.
Returned == estPc = "returned"

\* handleConnection of connection i is not running.
RelayOff(i) == hcPc[i] \in {"none", "exited"}

\* The Dial of connection i has failed.
DialFailed(i) == /\ hcPc[i] \in {"closeLocal", "wgDone", "exited"}
                 /\ remoteConn[i] = "none"

\* C1: every execution of Close sets the shutdown signal, then closes the
\* listener, then waits until the wait group is empty, then closes the
\* transport; at each position of Close exactly the earlier steps have taken
\* effect, and the wait is passed only when every registered task is gone.
CloseStepsInOrder ==
    Returned =>
        /\ closePc = "idle" =>
              ~done /\ listener = "open" /\ sshClient = "open"
        /\ closePc = "listener" =>
              done /\ listener = "open" /\ sshClient = "open"
        /\ closePc = "wait" =>
              done /\ listener = "closed" /\ sshClient = "open"
        /\ closePc = "sshClient" =>
              /\ done /\ listener = "closed" /\ sshClient = "open"
              /\ wg = 0 /\ alPc = "exited" /\ \A i \in Conns : RelayOff(i)
        /\ closePc = "returned" =>
              /\ done /\ listener = "closed" /\ sshClient = "closed"
              /\ wg = 0 /\ alPc = "exited" /\ \A i \in Conns : RelayOff(i)

CloseRanWithRelays ==
    /\ closePc = "returned"
    /\ \E i \in Conns : hcPc[i] = "exited"

\* C2: when the transport of a returned tunnel is closed, the listener is
\* closed, the accept loop has exited, no relay task is registered and no
\* channel opened over the transport is still open.
TransportClosedLast ==
    (Returned /\ sshClient = "closed") =>
        /\ listener = "closed"
        /\ alPc = "exited"
        /\ wg = 0
        /\ \A i \in Conns : RelayOff(i) /\ remoteConn[i] # "open"

TransportClosedAfterChannels ==
    /\ Returned
    /\ sshClient = "closed"
    /\ \E i \in Conns : remoteConn[i] = "closed"

\* C3: when Close returns, the local connection and the remote channel of
\* every relay that was copying when Close was called, and of every other
\* accepted connection, are closed.
AllSocketsClosedAtReturn ==
    closePc = "returned" =>
        \A i \in Conns : localConn[i] # "open" /\ remoteConn[i] # "open"

\* Close has returned after its signal ended the select of a relay that was
\* waiting for its two copy directions.
ClosedWhileMidTransfer ==
    /\ closePc = "returned"
    /\ \E i \in Conns :
          /\ how[i] = "shutdown"
          /\ localConn[i] = "closed" /\ remoteConn[i] = "closed"

\* C4: when Close returns, the accept loop, every relay task and both copy
\* tasks of every relay have terminated.
AllTasksExitedAtReturn ==
    closePc = "returned" =>
        /\ alPc = "exited"
        /\ \A i \in Conns : RelayOff(i)
        /\ \A i \in Conns : \A d \in Dirs : cpPc[i][d] \in {"none", "exit"}

\* A step of acceptLoop in which Accept returns a connection.
AcceptSucceeds == alPc = "accept" /\ alPc' = "add"

ExactlyOneDial ==
    \A i \in Conns :
        /\ dials[i] <= 1
        /\ hcPc[i] \in {"none", "dial"} => dials[i] = 0
        /\ hcPc[i] \notin {"none", "dial"} => dials[i] = 1
        /\ localConn[i] = "closed" => dials[i] = 1

OneDialEachOutcome ==
    \E i, j \in Conns :
        /\ hcPc[i] = "exited" /\ DialFailed(i) /\ dials[i] = 1
        /\ hcPc[j] = "exited" /\ remoteConn[j] = "closed" /\ dials[j] = 1

\* What a step of a relay whose Dial failed leaves alone: the tunnel, the
\* accept loop, Close and every other relay.
FailureFrame(i) ==
    /\ UNCHANGED <<estVars, tunVars, loopVars, closeVars>>
    /\ wg' \in {wg, wg - 1}
    /\ \A j \in Conns \ {i} :
          /\ hcPc'[j] = hcPc[j]
          /\ localConn'[j] = localConn[j]
          /\ remoteConn'[j] = remoteConn[j]
          /\ cpPc'[j] = cpPc[j]
          /\ copyDone'[j] = copyDone[j]

\* C7: a failed Dial closes that local connection, starts no copy task and
\* deregisters, and changes nothing else: listener, transport, shutdown
\* signal, accept loop and the other relays are as before, and while Close
\* has not been called the tunnel keeps accepting.
DialFailureIsLocal ==
    /\ [](\A i \in Conns :
            DialFailed(i) =>
               /\ \A d \in Dirs : cpPc[i][d] = "none"
               /\ copyDone[i] = 0
               /\ hcPc[i] \in {"wgDone", "exited"} => localConn[i] = "closed"
               /\ closePc = "idle" =>
                     /\ alPc \in {"accept", "select", "add", "go"}
                     /\ listener = "open" /\ sshClient = "open" /\ ~done)
    /\ [][\A i \in Conns :
            (hcPc'[i] # hcPc[i] /\ DialFailed(i)') => FailureFrame(i)]_vars

RelayedAfterDialFailure ==
    \E i, j \in Conns :
        /\ i < j
        /\ hcPc[i] = "exited" /\ DialFailed(i)
        /\ hcPc[j] = "select" /\ remoteConn[j] = "open"

\* C9 as stated: the accept loop exits only on an Accept failure that arose
\* while the shutdown signal was set.
ExitOnlyOnFailureWhileSet ==
    [][(alPc # "exited" /\ alPc' = "exited") => lastErr = "set"]_vars

\* C9: the accept loop exits only from the select that follows an Accept
\* failure, and only when that select finds the shutdown signal set; when
\* the select finds it unset the loop calls Accept again; neither the failure
\* nor the select changes a value returned to a caller.
ExitOnlyWhenSelectSeesDone ==
    [][/\ (alPc # "exited" /\ alPc' = "exited") => (alPc = "select" /\ done)
       /\ (alPc = "select" /\ ~done /\ alPc' # alPc) =>
             (alPc' = "accept" /\ wg' = wg)
       /\ ((alPc = "accept" /\ alPc' = "select") \/ alPc = "select") =>
             UNCHANGED <<estErr, closeErr>>]_vars

TransientFailureSurvived ==
    /\ alPc = "select"
    /\ lastErr = "unset"
    /\ ~done
    /\ \E i \in Conns : hcPc[i] = "select"

\* A step in which handleConnection of connection i moves on towards its
\* return: out of the select, through a deferred call, or out of a failed
\* Dial.
Completing(i) ==
    /\ hcPc'[i] # hcPc[i]
    /\ hcPc'[i] \in {"closeRemote", "closeLocal", "wgDone", "exited"}

\* What a completing relay may change: its own position, its own two
\* connections (only to closed) and, on its last step, its own count in the
\* wait group.
CompletionFrame(i) ==
    /\ UNCHANGED <<estVars, tunVars, loopVars, closeVars>>
    /\ wg' = IF hcPc'[i] = "exited" THEN wg - 1 ELSE wg
    /\ localConn'[i] \in {localConn[i], "closed"}
    /\ remoteConn'[i] \in {remoteConn[i], "closed"}
    /\ \A j \in Conns \ {i} :
          /\ hcPc'[j] = hcPc[j]
          /\ localConn'[j] = localConn[j]
          /\ remoteConn'[j] = remoteConn[j]
          /\ cpPc'[j] = cpPc[j]
          /\ copyDone'[j] = copyDone[j]

\* C12: the completion of one relay, whatever ended it, closes only its own
\* two connections and takes only itself out of the wait group; the other
\* relays, the listener, the transport and the shutdown signal stay as they
\* are.
CompletionIsLocal ==
    [][\A i \in Conns : Completing(i) => CompletionFrame(i)]_vars

OtherRelayOutlivesCompletion ==
    \E i, j \in Conns :
        /\ i # j
        /\ hcPc[i] = "exited" /\ how[i] = "copy"
        /\ localConn[i] = "closed" /\ remoteConn[i] = "closed"
        /\ hcPc[j] = "select"
        /\ localConn[j] = "open" /\ remoteConn[j] = "open"
        /\ ~done /\ listener = "open" /\ sshClient = "open"

\* C13: on a returned tunnel the shutdown signal, the listener and the
\* transport are changed by the steps of Close only, each by its own step;
\* until Close is called the tunnel stays active whatever Accept, Dial or
\* io.Copy report.
OnlyCloseLeavesActive ==
    /\ [](Returned /\ closePc = "idle" =>
            ~done /\ listener = "open" /\ sshClient = "open"
                  /\ alPc # "exited")
    /\ [][Returned =>
            /\ done' # done => (closePc = "idle" /\ closePc' = "listener")
            /\ listener' # listener =>
                  (closePc = "listener" /\ closePc' = "wait")
            /\ sshClient' # sshClient =>
                  (closePc = "sshClient" /\ closePc' = "returned")]_vars

ActiveAfterEveryFailure ==
    /\ Returned /\ closePc = "idle"
    /\ ~done /\ listener = "open" /\ sshClient = "open"
    /\ alPc = "select" /\ lastErr = "unset"
    /\ \E i, j \in Conns :
          /\ hcPc[i] = "exited" /\ DialFailed(i)
          /\ hcPc[j] = "exited" /\ how[j] = "copy"

\* C14: when NewSSHTunnel has returned an error there is no tunnel: no
\* listener is open, no accept loop was started, nothing is registered, and
\* the transport is either not opened or closed again; after a failed
\* net.Listen it is closed.
FailedEstablishLeavesNothing ==
    estPc = "failed" =>
        /\ estErr # "none"
        /\ listener = "none"
        /\ alPc = "none"
        /\ wg = 0
        /\ closePc = "idle"
        /\ sshClient \in {"none", "closed"}
        /\ estErr = "listen" <=> sshClient = "closed"

ListenFailureClosedTransport ==
    /\ estPc = "failed"
    /\ estErr = "listen"
    /\ sshClient = "closed"

\* The variables of the tunnel other than the value LocalAddr returns.
tunnelState == <<clients, againPc, freePorts, dataVars, strVars, cfg, keyPath, dialed, boundAddr, localAddr, estVars,
                 tunVars, wg, loopVars, relayVars, closeVars>>

\* C15: localAddr is assigned exactly once, in the step in which
\* NewSSHTunnel returns the tunnel, and never changes afterwards; every call
\* of LocalAddr, in any interleaving with the accept loop, the relays and
\* Close, returns that one string and changes no state of the tunnel.
LocalAddrAssignedOnce ==
    [][/\ localAddr' # localAddr =>
             localAddr = <<>> /\ estPc = "start" /\ estPc' = "returned"
       /\ Returned => localAddr # <<>>
       /\ got' # <<>> => got' = localAddr /\ got' = localAddr'
       /\ got' # got => UNCHANGED tunnelState]_vars

\* LocalAddr has been called on a tunnel that served a relay and that Close
\* has returned from.
LocalAddrCalledAroundClose ==
    /\ got # <<>>
    /\ got = localAddr
    /\ closePc = "returned"
    /\ \E i \in Conns : hcPc[i] = "exited" /\ how[i] # "none"

\* "127.0.0.1:" followed by the decimal digits of a port in 1..65535.
IsLoopbackHostPort(s) ==
    LET loopback == <<"1", "2", "7", ".", "0", ".", "0", ".", "1", ":">>
        rest     == From(s, Len(loopback))
    IN  /\ HasPrefix(s, loopback)
        /\ rest # <<>>
        /\ \A k \in 1..Len(rest) : IsDigit(rest[k])
        /\ rest[1] # "0"
        /\ Len(rest) <= 5
        /\ AtoiAcc(rest, 0) \in 1..65535

\* C16: for every successful NewSSHTunnel, LocalAddr called before anything
\* else is done with the tunnel returns a loopback host:port with a non-zero
\* port, the listener bound to that address is open and the accept loop has
\* been started on it.
LocalAddrIsLiveLoopback ==
    Returned /\ closePc = "idle" =>
        /\ IsLoopbackHostPort(localAddr)
        /\ got \in {<<>>, localAddr}
        /\ listener = "open"
        /\ AddrString(boundAddr) = localAddr
        /\ boundAddr.port # 0
        /\ alPc # "none"

\* LocalAddr has been called right after NewSSHTunnel returned: the accept
\* loop is waiting in its first Accept and no client has connected.
LocalAddrRightAfterEstablish ==
    /\ Returned
    /\ closePc = "idle"
    /\ got # <<>>
    /\ alPc = "accept"
    /\ \A i \in Conns : hcPc[i] = "none" /\ localConn[i] = "none"

\* The value of a sequence of decimal digits, most significant first.
DecimalValue(s) ==
    LET Pow10(k) == CASE k = 0 -> 1 [] k = 1 -> 10 [] k = 2 -> 100
                      [] k = 3 -> 1000 [] k = 4 -> 10000
        RECURSIVE Sum(_)
        Sum(k) == IF k = 0 THEN 0
                  ELSE Sum(k - 1) + DigitVal(s[k]) * Pow10(Len(s) - k)
    IN  Sum(Len(s))

\* A configured Port that is a decimal number of at most five digits.
IsDecimal(s) == /\ s # <<>>
                /\ Len(s) <= 5
                /\ \A k \in 1..Len(s) : IsDigit(s[k])

\* C17: NewSSHTunnel dials the configured HostName or else the alias, on the
\* configured Port or else 22 (also when the configured Port is no number),
\* as the configured User or else $USER, and reads the key from the
\* configured IdentityFile or else $HOME/.ssh/id_rsa, with a leading "~/" of
\* that path replaced by $HOME.
ParametersFallBack ==
    /\ dialed.host # <<>> =>
         /\ dialed.host = IF cfg.HostName # <<>> THEN cfg.HostName ELSE Alias
         /\ dialed.user = IF cfg.User # <<>> THEN cfg.User ELSE EnvUser
         /\ dialed.port = IF IsDecimal(cfg.Port) THEN DecimalValue(cfg.Port)
                                                 ELSE 22
    /\ keyPath # <<>> =>
         LET f == IF cfg.IdentityFile # <<>>
                     THEN cfg.IdentityFile
                     ELSE EnvHome \o <<"/", ".", "s", "s", "h", "/",
                                       "i", "d", "_", "r", "s", "a">>
         IN  keyPath = IF Len(f) >= 2 /\ f[1] = "~" /\ f[2] = "/"
                          THEN EnvHome \o <<"/">> \o SubSeq(f, 3, Len(f))
                          ELSE f
    /\ estPc \in {"sshDial", "listen", "start", "returned"} => keyPath # <<>>
    /\ estPc \in {"listen", "start", "returned"} => dialed.host # <<>>

\* A tunnel established for an alias that sets only IdentityFile, to a path
\* under "~/": every other parameter is the fallback.
EstablishedOnFallbacks ==
    /\ Returned
    /\ cfg.HostName = <<>> /\ dialed.host = Alias
    /\ cfg.User = <<>> /\ dialed.user = EnvUser
    /\ cfg.Port = <<>> /\ dialed.port = 22
    /\ cfg.IdentityFile = <<"~", "/", "k">> /\ keyPath = <<"/", "r", "/", "k">>

\* The connection string starts with one of the two schemes.
Recognized(u) ==
    \/ Len(u) >= 10 /\ SubSeq(u, 1, 10) = Mongodb
    \/ Len(u) >= 14 /\ SubSeq(u, 1, 14) = MongodbSrv

\* The connection string without its leading scheme.
AfterScheme(u) ==
    IF Len(u) >= 10 /\ SubSeq(u, 1, 10) = Mongodb THEN SubSeq(u, 11, Len(u))
    ELSE IF Len(u) >= 14 /\ SubSeq(u, 1, 14) = MongodbSrv
            THEN SubSeq(u, 15, Len(u))
    ELSE u

\* The position of the first character of s that is in chars, Len(s) + 1
\* when there is none.
FirstOf(s, chars) ==
    LET hits == {k \in 1..Len(s) : s[k] \in chars}
    IN  IF hits = {} THEN Len(s) + 1
        ELSE CHOOSE k \in hits : \A j \in hits : k <= j

\* The text after the first "@", the whole text when there is no "@".
AfterCredentials(s) ==
    IF FirstOf(s, {"@"}) <= Len(s)
       THEN SubSeq(s, FirstOf(s, {"@"}) + 1, Len(s))
       ELSE s

\* The host and port of the documentation: no scheme, no credentials, cut at
\* the first "/" or "?", ":27017" added when there is no ":".
RefHostPort(u) ==
    LET rest == AfterCredentials(AfterScheme(u))
        host == SubSeq(rest, 1, FirstOf(rest, {"/", "?"}) - 1)
    IN  IF FirstOf(host, {":"}) <= Len(host) THEN host
        ELSE host \o <<":", "2", "7", "0", "1", "7">>

\* C18: for every input string, ParseMongoHostPort returns the host and port
\* of the documentation: a leading "mongodb://" or "mongodb+srv://" removed,
\* everything up to the first "@" discarded, cut at the first "/" or "?",
\* and ":27017" appended exactly when no ":" remains.
ParseEqualsReference == hostPort # <<>> => hostPort = RefHostPort(uri)

\* C19: for every connection string of either scheme and every local address
\* L, BuildTunneledConnectionString returns "mongodb://", the credentials
\* (the text up to and including the first "@"), L and the suffix (the text
\* from the first "/" or "?" after the credentials onward), followed by
\* nothing but the appended directConnection option.
RewriteIsAssembly ==
    tunneled # <<>> /\ Recognized(uri) =>
        LET rest   == AfterScheme(uri)
            creds  == SubSeq(rest, 1, Len(rest) - Len(AfterCredentials(rest)))
            after  == AfterCredentials(rest)
            suffix == SubSeq(after, FirstOf(after, {"/", "?"}), Len(after))
            base   == Mongodb \o creds \o laddr \o suffix
        IN  tunneled \in {base,
                          base \o <<"&">> \o DirectOption,
                          base \o <<"?">> \o DirectOption,
                          base \o <<"/", "?">> \o DirectOption}

\* The same letter in either case, or the same character.
SameLetter(a, b) ==
    \/ a = b
    \/ \E k \in 1..26 : {a, b} = {UpperCase[k], LowerCase[k]}

\* Number of places of s where "directConnection=" stands, in any case.
Occurrences(s) ==
    Cardinality({k \in 0..(Len(s) - Len(DirectKey)) :
                    \A j \in 1..Len(DirectKey) : SameLetter(s[k + j], DirectKey[j])})

\* C20 as claimed: for every connection string of either scheme, the result
\* of BuildTunneledConnectionString contains "directConnection=", in any
\* case, exactly once.
OptionExactlyOnce ==
    tunneled # <<>> /\ Recognized(uri) => Occurrences(tunneled) = 1

\* C20: for every connection string of either scheme, the result contains
\* "directConnection=", in any case, at least once and no more often than
\* the connection string does unless that has none; it contains it exactly
\* once when the connection string contains it at most once.
OptionOnceUnlessRepeated ==
    tunneled # <<>> /\ Recognized(uri) =>
        /\ Occurrences(tunneled) >= 1
        /\ Occurrences(uri) <= 1 => Occurrences(tunneled) = 1
        /\ Occurrences(uri) >= 1 => Occurrences(tunneled) <= Occurrences(uri)

\* A connection string that carries the option once, capitalised, in its
\* query: the result carries it once and ends as the connection string does.
ExistingOptionNotDuplicated ==
    /\ tunneled # <<>>
    /\ Recognized(uri)
    /\ Occurrences(uri) = 1
    /\ Occurrences(tunneled) = 1
    /\ ~Contains(uri, SubSeq(DirectOption, 1, Len(DirectKey)))
    /\ SubSeq(tunneled, Len(tunneled) - 2, Len(tunneled)) = <<"x", "=", "1">>

\* The credentials of the documentation: the text after the scheme up to and
\* including the first "@", empty when there is no "@".
RefCredentials(u) ==
    LET rest == AfterScheme(u)
    IN  SubSeq(rest, 1, Len(rest) - Len(AfterCredentials(rest)))

\* The suffix of the documentation: everything after the credentials from the
\* first "/" or "?" onward, whichever comes first.
RefSuffix(u) ==
    LET after == AfterCredentials(AfterScheme(u))
    IN  SubSeq(after, FirstOf(after, {"/", "?"}), Len(after))

\* The character ch occurs in s.
Has(s, ch) == \E k \in 1..Len(s) : s[k] = ch

\* C22: for a connection string of either scheme with neither "/" nor "?"
\* after the host, BuildTunneledConnectionString returns "mongodb://", the
\* credentials, the local address and "/?directConnection=true".
BareOptionWithoutSuffix ==
    tunneled # <<>> /\ Recognized(uri) /\ RefSuffix(uri) = <<>> =>
        tunneled = Mongodb \o RefCredentials(uri) \o laddr
                       \o <<"/", "?">> \o DirectOption

\* C23: the separator of the appended option is decided by the suffix alone:
\* for a connection string of either scheme that does not carry the option,
\* it is appended with "&" exactly when the suffix contains "?", and with "?"
\* exactly when the suffix contains "/" and no "?".
SeparatorBySuffix ==
    tunneled # <<>> /\ Recognized(uri) /\ Occurrences(uri) = 0 =>
        LET base == Mongodb \o RefCredentials(uri) \o laddr \o RefSuffix(uri)
        IN  /\ tunneled = base \o <<"&">> \o DirectOption
                <=> Has(RefSuffix(uri), "?")
            /\ tunneled = base \o <<"?">> \o DirectOption
                <=> Has(RefSuffix(uri), "/") /\ ~Has(RefSuffix(uri), "?")

\* C24: the suffix BuildTunneledConnectionString preserves is everything from
\* the first "/" or "?" after the credentials onward, whichever comes first:
\* the result starts with "mongodb://", the credentials, the local address
\* and that suffix, also when a "?" comes before the first "/".
SuffixFromFirstSeparator ==
    tunneled # <<>> /\ Recognized(uri) =>
        LET base == Mongodb \o RefCredentials(uri) \o laddr \o RefSuffix(uri)
        IN  Len(base) <= Len(tunneled) /\ SubSeq(tunneled, 1, Len(base)) = base

\* C26: ParseMongoHostPort and BuildTunneledConnectionString return a string
\* for every input, whatever its shape, and never end in a panic;
\* ParseMongoHostPort returns a host with a port, ":27017" when the input
\* names no port.
NeverFails ==
    /\ hostPort # <<>> =>
         /\ \A k \in 1..Len(hostPort) : hostPort[k] # "panic"
         /\ Has(hostPort, ":")
         /\ LET rest == AfterCredentials(AfterScheme(uri))
                host == SubSeq(rest, 1, FirstOf(rest, {"/", "?"}) - 1)
            IN  ~Has(host, ":") =>
                  /\ Len(hostPort) >= 6
                  /\ SubSeq(hostPort, Len(hostPort) - 5, Len(hostPort))
                        = <<":", "2", "7", "0", "1", "7">>
    /\ tunneled # <<>> => \A k \in 1..Len(tunneled) : tunneled[k] # "panic"
    /\ retunneled # <<>> => \A k \in 1..Len(retunneled) : retunneled[k] # "panic"

\* Both functions have returned for the empty string: the default port
\* alone, and the local address with the bare option.
ReturnedForEmptyString ==
    /\ uri = <<>>
    /\ hostPort = <<":", "2", "7", "0", "1", "7">>
    /\ tunneled = laddr \o <<"/", "?">> \o DirectOption

\* C21: for every connection string of either scheme and a fixed local
\* address, BuildTunneledConnectionString applied to its own result returns
\* that result: the second application adds no option and changes neither
\* host, credentials nor suffix.
RewriteIdempotent ==
    retunneled # <<>> /\ Recognized(uri) => retunneled = tunneled

\* The function has been applied twice to a connection string with
\* credentials, a path and a query but no option: the first application
\* appended the option, the second returned its argument.
RewrittenTwice ==
    /\ retunneled # <<>>
    /\ Recognized(uri)
    /\ Occurrences(uri) = 0
    /\ \E k \in 1..Len(uri) : uri[k] = "@"
    /\ \E k \in 1..Len(uri) : uri[k] = "?"
    /\ Occurrences(tunneled) = 1
    /\ retunneled = tunneled

\* C25: for every remainder X and local address,
\* BuildTunneledConnectionString returns the same for "mongodb://" X and for
\* "mongodb+srv://" X, and that result starts with "mongodb://".
SchemesConverge ==
    tunneled # <<>> /\ twin # <<>> /\ Recognized(uri) =>
        /\ twin = tunneled
        /\ Len(tunneled) >= 10
        /\ \A k \in 1..10 : tunneled[k] = Mongodb[k]
        /\ ~(Len(tunneled) >= 14 /\ \A k \in 1..14 : tunneled[k] = MongodbSrv[k])

\* Both spellings of a connection string with the SRV scheme, credentials
\* and a suffix have been rewritten.
BothSpellingsRewritten ==
    /\ tunneled # <<>>
    /\ twin # <<>>
    /\ Len(uri) > 14 /\ SubSeq(uri, 1, 14) = MongodbSrv
    /\ \E k \in 1..Len(uri) : uri[k] = "@"
    /\ twin = tunneled

\* C37: for every input string, the result of ParseMongoHostPort contains a
\* ":" and contains neither "/" nor "?".
HostPortWellFormed ==
    hostPort # <<>> =>
        /\ Has(hostPort, ":")
        /\ ~Has(hostPort, "/")
        /\ ~Has(hostPort, "?")

\* ParseMongoHostPort has been applied to a string in which a "?" stands
\* before a "/" and that has no ":" of its own.
ParsedWithQueryBeforePath ==
    /\ hostPort # <<>>
    /\ Has(uri, "?") /\ Has(uri, "/") /\ ~Has(uri, ":")
    /\ Index(uri, "?") < Index(uri, "/")
    /\ hostPort = Upto(uri, Index(uri, "?")) \o DefaultMongoPort

\* The query of the documentation: the suffix from its first "?" onward.
RefQuery(u) ==
    LET suffix == RefSuffix(u)
    IN  SubSeq(suffix, FirstOf(suffix, {"?"}), Len(suffix))

\* C38: for a connection string of either scheme whose query carries
\* "directConnection=" in any case and with any value,
\* BuildTunneledConnectionString returns "mongodb://", the credentials, the
\* local address and the suffix, with nothing appended.
ExistingOptionKept ==
    tunneled # <<>> /\ Recognized(uri) /\ Occurrences(RefQuery(uri)) >= 1 =>
        tunneled = Mongodb \o RefCredentials(uri) \o laddr \o RefSuffix(uri)

\* a is a prefix of b.
IsPrefix(a, b) == Len(a) <= Len(b) /\ SubSeq(b, 1, Len(a)) = a

\* C11: with several relays on one tunnel, the bytes written to the remote
\* channel of relay i are at every moment a prefix of the bytes read from
\* its local connection, the bytes written to its local connection are a
\* prefix of the bytes read from its remote channel, the bytes read are the
\* bytes the peer sent, and no byte of one relay is written to a connection
\* of another relay.
NoCrossTalk ==
    \A i \in Conns, d \in Dirs :
        /\ IsPrefix(wr[i][d], rd[i][d])
        /\ \A k \in 1..Len(rd[i][d]) : rd[i][d][k] = <<i, d, k>>
        /\ \A k \in 1..Len(wr[i][d]) : wr[i][d][k][1] = i /\ wr[i][d][k][2] = d

\* Two relays carry data at the same time: the first has delivered a byte
\* of its client to its remote channel, the second a byte of its remote
\* channel to its client, and both are still open.
TwoRelaysCarryData ==
    /\ wr[1]["l2r"] = << <<1, "l2r", 1>> >>
    /\ wr[2]["r2l"] = << <<2, "r2l", 1>> >>
    /\ hcPc[1] = "select" /\ hcPc[2] = "select"
    /\ \A i \in {1, 2} : localConn[i] = "open" /\ remoteConn[i] = "open"

\* C27: no handleConnection dials on, or holds a channel over, an SSH client
\* that is closed: while a connection is accepted and about to be handled,
\* while its Dial is pending and while its channel is open, the client is
\* open, also for a connection accepted while Close is running.
NoRelayOnClosedTransport ==
    /\ alPc \in {"add", "go"} => sshClient = "open"
    /\ \A i \in Conns :
          hcPc[i] = "dial" \/ remoteConn[i] = "open" => sshClient = "open"

\* A connection accepted after close(t.done) is dialling while Close waits
\* for the wait group.
DialDuringTeardown ==
    /\ done
    /\ closePc = "wait"
    /\ \E i \in Conns : hcPc[i] = "dial"
    /\ sshClient = "open"

\* A client that has not connected yet.
ClientWaiting == \E i \in Conns : i <= clients /\ localConn[i] = "none"

\* C28: acceptLoop never waits for a relay: after a successful Accept,
\* wg.Add and the go statement can always be executed, and while the
\* listener is open a waiting client can be accepted, whatever the state of
\* the relays started before.
AcceptNeverWaits ==
    /\ alPc = "add" => ENABLED WgAdd
    /\ alPc = "go" => ENABLED GoHandle
    /\ alPc = "accept" /\ listener = "open" /\ ClientWaiting => ENABLED AcceptOk

\* A second connection has been accepted while the relay of the first is
\* blocked in Dial.
AcceptedWhileRelayBlocked ==
    /\ hcPc[1] = "dial"
    /\ conn = 2
    /\ alPc = "add"
    /\ localConn[2] = "open"

\* The position of a step in NewSSHTunnel.
StepNo(pc) ==
    CASE pc = "openConfig" -> 1
      [] pc = "decode"     -> 2
      [] pc = "readKey"    -> 3
      [] pc = "parseKey"   -> 4
      [] pc = "sshDial"    -> 5
      [] pc = "listen"     -> 6
      [] pc = "start"      -> 7
      [] pc = "returned"   -> 8
      [] OTHER             -> 0

\* C29: NewSSHTunnel opens and decodes the configuration, reads the key,
\* parses it, dials and listens, in this order and each at most once; the
\* first call that fails ends NewSSHTunnel with its error and nothing later
\* is executed: after a failure of the configuration or the key no SSH
\* client has been dialled and no listener opened.
EstablishInOrder ==
    [][/\ estPc' # estPc =>
             /\ estPc # "failed"
             /\ \/ estPc' = "failed" /\ estErr' = estPc /\ StepNo(estPc) \in 1..6
                \/ StepNo(estPc') = StepNo(estPc) + 1 /\ estErr' = "none"
       /\ estErr # "none" => estPc = "failed" /\ estErr' = estErr
       /\ keyPath' # keyPath => estPc = "readKey" /\ keyPath = <<>>
       /\ dialed' # dialed => estPc = "sshDial" /\ dialed.host = <<>>
       /\ boundAddr' # boundAddr => estPc = "listen" /\ boundAddr.host = <<>>
       /\ estErr \in {"openConfig", "decode", "readKey", "parseKey"} =>
             /\ sshClient = "none" /\ dialed.host = <<>>
             /\ listener = "none" /\ boundAddr.host = <<>>
       /\ estErr = "sshDial" =>
             /\ sshClient = "none" /\ listener = "none"
             /\ boundAddr.host = <<>>]_vars

\* NewSSHTunnel has failed on a key that was read and could not be parsed.
FailedOnUnparseableKey ==
    /\ estPc = "failed"
    /\ estErr = "parseKey"
    /\ keyPath # <<>>
    /\ dialed.host = <<>>
    /\ sshClient = "none"
    /\ listener = "none"

\* Number of goroutines the wait group tracks and that have not called
\* wg.Done: acceptLoop from wg.Add(1) in NewSSHTunnel, a handleConnection
\* from the wg.Add(1) before its go statement.
Tracked ==
    (IF alPc \in {"accept", "select", "add", "go"} THEN 1 ELSE 0)
    + (IF alPc = "go" THEN 1 ELSE 0)
    + Cardinality({i \in Conns : ~RelayOff(i)})

\* C31: the wait group counter is never negative and equals the number of
\* tracked goroutines (acceptLoop and every registered handleConnection) that
\* have not exited: each handleConnection is added once before it starts and
\* calls wg.Done once on each of its exit paths.
RegistrationBalanced ==
    /\ wg >= 0
    /\ wg = Tracked
    /\ \A i \in Conns : hcPc[i] = "exited" => how[i] \in {"copy", "shutdown"} \/ DialFailed(i)

\* One handleConnection has returned on a Dial error and another after a copy
\* direction ended, and only acceptLoop is left in the wait group.
BalancedAfterFailureAndCopyEnd ==
    /\ hcPc[1] = "exited" /\ DialFailed(1)
    /\ hcPc[2] = "exited" /\ how[2] = "copy"
    /\ alPc = "accept"
    /\ wg = 1

\* Close is at `return t.sshClient.Close()` and sshClient.Close() returns e.
ClientCloseReturns(e) == CloseSSHClient /\ closeErr' = e

\* C33: what Close returns is what sshClient.Close() returns: no value is
\* returned before that call, both of its outcomes can be returned whatever
\* errors the listener, Accept, Dial and io.Copy have had, and no error of
\* those changes the value of Close or the value NewSSHTunnel has returned.
CloseReturnsClientResult ==
    /\ [](closePc = "sshClient" =>
            ENABLED ClientCloseReturns("nil") /\ ENABLED ClientCloseReturns("err"))
    /\ [](IF closePc = "returned" THEN closeErr \in {"nil", "err"} /\ sshClient = "closed"
                                  ELSE closeErr = "pending")
    /\ [][/\ closeErr' # closeErr =>
                /\ closePc = "sshClient" /\ closePc' = "returned"
                /\ sshClient = "open" /\ sshClient' = "closed"
          /\ Returned => estErr' = estErr /\ estErr = "none"]_vars

\* Close has returned nil although the Dial of a relay had failed.
ReturnedNilAfterDialFailure ==
    /\ closePc = "returned"
    /\ closeErr = "nil"
    /\ \E i \in Conns : hcPc[i] = "exited" /\ DialFailed(i)

\* acceptLoop has been started and has not returned.
LoopAlive == alPc \in {"accept", "select", "add", "go"}

\* C34: wg.Wait of Close is not passed while acceptLoop is alive: acceptLoop
\* is in the wait group from before NewSSHTunnel returns until it returns
\* itself, and a connection it has accepted is in the wait group before its
\* handleConnection is started, so the counter is not zero between an Accept
\* and the wg.Add of the accepted connection.
BarrierHeldByLoop ==
    /\ [](Returned => alPc # "none")
    /\ [](LoopAlive => wg >= 1 /\ closePc \in {"idle", "listener", "wait"})
    /\ [](alPc = "go" => wg >= 2)
    /\ [][closePc = "wait" /\ closePc' # "wait" =>
            /\ alPc = "exited"
            /\ conn = 0
            /\ \A i \in Conns : localConn[i] = "open" => hcPc[i] # "none"]_vars

\* Close waits at wg.Wait with the listener closed while acceptLoop holds a
\* connection it has accepted and not yet added: the registration of
\* acceptLoop is then the only one.
AcceptedUnregisteredAtBarrier ==
    /\ closePc = "wait"
    /\ listener = "closed"
    /\ alPc = "add"
    /\ \A i \in Conns : RelayOff(i)
    /\ wg = 1

(***************************************************************************)
(* Properties of fair runs                                                 *)
(***************************************************************************)

\* A select of handleConnection that can be left.
Triggered(i) == hcPc[i] = "select" /\ (copyDone[i] > 0 \/ done)

\* C8: a relay whose channel was opened leaves its select only when a copy
\* direction has reported its end or the shutdown signal is set, and then it
\* does complete; on both paths the remote channel and the local connection
\* are closed before the relay deregisters.
RelayCompletes ==
    /\ [][\A i \in Conns :
            (hcPc[i] = "select" /\ hcPc'[i] # "select") =>
                ((copyDone[i] > 0 \/ done) /\ hcPc'[i] = "closeRemote")]_vars
    /\ [](\A i \in Conns :
            (hcPc[i] \in {"wgDone", "exited"} /\ remoteConn[i] # "none") =>
                (localConn[i] = "closed" /\ remoteConn[i] = "closed"))
    /\ \A i \in Conns : Triggered(i) ~> (hcPc[i] = "exited")

\* A relay has completed because a copy direction ended, with no shutdown.
CompletedByCopyEnd ==
    \E i \in Conns :
        /\ hcPc[i] = "exited" /\ how[i] = "copy" /\ ~done
        /\ localConn[i] = "closed" /\ remoteConn[i] = "closed"

\* Every goroutine of the tunnel has ended.
AllExited ==
    /\ alPc = "exited"
    /\ \A i \in Conns : RelayOff(i)
    /\ \A i \in Conns : \A d \in Dirs : cpPc[i][d] \in {"none", "exit"}

SignalSetOnceAndObserved ==
    /\ [](done <=> closePc # "idle")
    /\ [][/\ done => done'
          /\ done' # done => closePc = "idle" /\ closePc' = "listener"]_vars
    /\ \A i \in Conns : (hcPc[i] = "select" /\ done) ~> (hcPc[i] = "exited")

\* A handleConnection has returned on the signal alone: both of its copy
\* goroutines were still running.
ReturnedOnSignalAlone ==
    /\ done
    /\ \E i \in Conns :
          /\ hcPc[i] = "exited"
          /\ how[i] = "shutdown"
          /\ copyDone[i] = 0

\* C32: the send of a copy goroutine on the done channel never blocks, and
\* once handleConnection has closed both connections of a relay each of its
\* copy goroutines that is still running ends: its io.Copy returns on the
\* closed connection and it sends on the done channel although
\* handleConnection no longer receives.
CopyTasksTerminate ==
    /\ [](\A i \in Conns : \A d \in Dirs :
            cpPc[i][d] = "run" => copyDone[i] < DoneCap)
    /\ \A i \in Conns : \A d \in Dirs :
          (cpPc[i][d] = "run" /\ localConn[i] = "closed" /\ remoteConn[i] = "closed")
              ~> (cpPc[i][d] = "exit")

\* Both copy goroutines of a relay stopped by the shutdown signal have ended
\* after handleConnection returned, and both of their values are still in the
\* done channel.
BothReportedAfterReturn ==
    \E i \in Conns :
        /\ hcPc[i] = "exited" /\ how[i] = "shutdown"
        /\ \A d \in Dirs : cpPc[i][d] = "exit"
        /\ copyDone[i] = DoneCap

Ending(i) ==
    \/ done
    \/ copyDone[i] > 0
    \/ hcPc[i] \in {"closeRemote", "closeLocal", "wgDone", "exited"}

SecondClosePanics ==
    /\ [](againPc \in {"idle", "panicked"})
    /\ [][againPc' # againPc =>
            /\ againPc = "idle" /\ againPc' = "panicked"
            /\ done /\ closePc # "idle"
            /\ UNCHANGED <<tunVars, wg, closeVars>>]_vars
    /\ [][Returned /\ sshClient' # sshClient =>
            /\ sshClient = "open" /\ sshClient' = "closed"
            /\ closePc = "sshClient" /\ closePc' = "returned"]_vars
    /\ [][sshClient = "closed" => sshClient' = "closed"]_vars

\* A second call of Close has panicked while the first call waits for the
\* wait group with the SSH client open.
PanickedWhileFirstWaits ==
    /\ againPc = "panicked"
    /\ closePc = "wait"
    /\ wg > 0
    /\ sshClient = "open"

====
